---- MODULE Spec2Model ----
(***************************************************************************)
(* A model of src/src/amcl_utils.rs: the compressed point codec            *)
(* (compress_g1 / decompress_g1 / compress_g2 / decompress_g2 /            *)
(* calc_a_flag), hash_to_field_g1 / hash_to_field_g2, multiply_g2_cofactor *)
(* and the trial-and-increment loops hash_and_test_g1 / hash_and_test_g2.  *)
(*                                                                         *)
(* The curve arithmetic library (amcl) and SHA-256 are outside the file.   *)
(* The library is modelled by its contract on a curve of the same shape    *)
(* as BLS12-381 but small enough to enumerate: a prime MODULUS = 3 mod 4,  *)
(* Fp2 = Fp[i]/(i^2+1), E1: y^2 = x^3 + 4 over Fp and E2: y^2 = x^3 + B2   *)
(* over Fp2, both of odd order with a prime-order subgroup and a cofactor  *)
(* greater than one.  Bytes are u8 and keep their width; a coordinate is   *)
(* MODBYTES bytes wide.  Which of the two square roots the library returns *)
(* is not part of its contract and is a choice (pick) of every call.  A    *)
(* digest is a value the environment supplies.                             *)
(***************************************************************************)
EXTENDS Integers, Sequences, FiniteSets

(***************************************************************************)
(* Program constants, scaled.                                              *)
(***************************************************************************)
\* rom::MODULUS, the field prime p
MODULUS == 19
\* big::MODBYTES, the bytes of one field element
MODBYTES == 2
\* the bytes of one digest (SHA-256 in the source)
DIGESTBYTES == 1
\* the zero bytes hash_and_test puts before a digest: MODBYTES - DIGESTBYTES
HASHPAD == 1
HASH_REPS == 2
\* rom::CURVE_B of E1
CURVE_B == 4
\* the constant term of E2, an element of Fp2
CURVE_B2 == <<4, 1>>
\* rom::CURVE_ORDER, the prime order r of the subgroups
CURVE_ORDER == 7
\* the cofactor cfp() multiplies by: #E1 = CURVE_COF * CURVE_ORDER
CURVE_COF == 3
\* the G2 cofactor in parts: #E2 = (HIGH * SHIFT + LOW) * CURVE_ORDER
G2_COFACTOR_HIGH == 3
G2_COFACTOR_SHIFT == 16
G2_COFACTOR_LOW == 9
G1_BYTE_SIZE == 2 * MODBYTES
G2_BYTE_SIZE == 4 * MODBYTES

(***************************************************************************)
(* Bounds on the inputs drawn.                                             *)
(***************************************************************************)
\* the x bits of a most significant byte range over 0..MaxHi
MaxHi == 1
\* every other byte of a decoded buffer ranges over 0..MaxLo
MaxLo == 19
\* a digest byte ranges over 0..MaxDigestByte
MaxDigestByte == 4
\* the extra lengths tried around the expected buffer length
MaxExtraLen == 1
\* a caller applies at most MaxOps codec operations to what it holds
MaxOps == 2

(***************************************************************************)
(* Fp: the integers modulo MODULUS.                                        *)
(***************************************************************************)
Fp == 0 .. (MODULUS - 1)

FpAdd(a, b) == (a + b) % MODULUS
FpSub(a, b) == (a - b + MODULUS) % MODULUS
FpNeg(a) == (MODULUS - a) % MODULUS
FpMul(a, b) == (a * b) % MODULUS
FpInvTable == [a \in 1 .. (MODULUS - 1) |-> CHOOSE b \in 1 .. (MODULUS - 1) : (a * b) % MODULUS = 1]
FpInv(a) == FpInvTable[a]
\* the square roots of a, as a set (empty, {0}, or {y, p - y})
FpRoots(a) == {y \in Fp : (y * y) % MODULUS = a}

(***************************************************************************)
(* Fp2: pairs <<a, b>> standing for a + b*i, i^2 = -1.                     *)
(***************************************************************************)
Fp2 == Fp \X Fp
Fp2Zero == <<0, 0>>
\* FP2::new_bigs: both parts reduced modulo p
Fp2NewBigs(re, im) == <<re % MODULUS, im % MODULUS>>
Fp2Add(u, v) == <<FpAdd(u[1], v[1]), FpAdd(u[2], v[2])>>
Fp2Sub(u, v) == <<FpSub(u[1], v[1]), FpSub(u[2], v[2])>>
Fp2Neg(u) == <<FpNeg(u[1]), FpNeg(u[2])>>
Fp2Mul(u, v) ==
    <<FpSub(FpMul(u[1], v[1]), FpMul(u[2], v[2])),
      FpAdd(FpMul(u[1], v[2]), FpMul(u[2], v[1]))>>
Fp2Inv(u) ==
    LET n == FpInv(FpAdd(FpMul(u[1], u[1]), FpMul(u[2], u[2])))
    IN  <<FpMul(u[1], n), FpMul(FpNeg(u[2]), n)>>
Fp2SqrTable == [u \in Fp2 |-> Fp2Mul(u, u)]
Fp2RootsTable == [u \in Fp2 |-> {y \in Fp2 : Fp2SqrTable[y] = u}]
\* the square roots of u, as a set
Fp2Roots(u) == Fp2RootsTable[u]

(***************************************************************************)
(* GroupG1 (amcl ECP): the points of E1 and the point at infinity.         *)
(***************************************************************************)
\* GroupG1::new(): the point at infinity
G1Inf == [inf |-> TRUE, x |-> 0, y |-> 0]
G1Pt(x, y) == [inf |-> FALSE, x |-> x, y |-> y]
\* the right-hand side x^3 + b of the curve equation
G1Rhs(x) == FpAdd(FpMul(FpMul(x, x), x), CURVE_B)
G1OnCurve(P) == P.inf \/ FpMul(P.y, P.y) = G1Rhs(P.x)
G1Points == {G1Inf} \cup UNION {{G1Pt(x, y) : y \in FpRoots(G1Rhs(x))} : x \in Fp}
\* GroupG1::new_big: the point of abscissa x (reduced modulo p), or the point
\* at infinity when x^3 + b has no square root; pick says which root
G1NewBig(x_big, pick) ==
    LET x == x_big % MODULUS
        roots == FpRoots(G1Rhs(x))
    IN  IF roots = {} THEN G1Inf
        ELSE G1Pt(x, CHOOSE y \in roots :
                        \A z \in roots : IF pick = 0 THEN y <= z ELSE y >= z)
G1Neg(P) == IF P.inf THEN P ELSE G1Pt(P.x, FpNeg(P.y))
G1Add(P, Q) ==
    IF P.inf THEN Q
    ELSE IF Q.inf THEN P
    ELSE IF P.x = Q.x /\ FpAdd(P.y, Q.y) = 0 THEN G1Inf
    ELSE LET lam == IF P.x = Q.x
                    THEN FpMul(FpMul(3, FpMul(P.x, P.x)), FpInv(FpMul(2, P.y)))
                    ELSE FpMul(FpSub(Q.y, P.y), FpInv(FpSub(Q.x, P.x)))
             x3 == FpSub(FpSub(FpMul(lam, lam), P.x), Q.x)
         IN  G1Pt(x3, FpSub(FpMul(lam, FpSub(P.x, x3)), P.y))
RECURSIVE G1Mul(_, _)
\* GroupG1::mul: e times P, by doubling and adding
G1Mul(P, e) ==
    IF e = 0 THEN G1Inf
    ELSE LET half == G1Mul(G1Add(P, P), e \div 2)
         IN  IF e % 2 = 1 THEN G1Add(P, half) ELSE half
\* GroupG1::cfp: multiplication by the cofactor of E1
G1Cfp(P) == G1Mul(P, CURVE_COF)

(***************************************************************************)
(* GroupG2 (amcl ECP2): the points of E2 over Fp2 and the point at         *)
(* infinity.                                                               *)
(***************************************************************************)
G2Inf == [inf |-> TRUE, x |-> Fp2Zero, y |-> Fp2Zero]
G2Pt(x, y) == [inf |-> FALSE, x |-> x, y |-> y]
G2Rhs(x) == Fp2Add(Fp2Mul(Fp2Mul(x, x), x), CURVE_B2)
G2OnCurve(P) == P.inf \/ Fp2Mul(P.y, P.y) = G2Rhs(P.x)
G2Points == {G2Inf} \cup UNION {{G2Pt(x, y) : y \in Fp2Roots(G2Rhs(x))} : x \in Fp2}
\* the order of pairs by which pick names one of two roots
Fp2Leq(u, v) == u[2] < v[2] \/ (u[2] = v[2] /\ u[1] <= v[1])
\* GroupG2::new_fp2
G2NewFp2(x, pick) ==
    LET roots == Fp2Roots(G2Rhs(x))
    IN  IF roots = {} THEN G2Inf
        ELSE G2Pt(x, CHOOSE y \in roots :
                        \A z \in roots : IF pick = 0 THEN Fp2Leq(y, z) ELSE Fp2Leq(z, y))
G2Neg(P) == IF P.inf THEN P ELSE G2Pt(P.x, Fp2Neg(P.y))
G2Add(P, Q) ==
    IF P.inf THEN Q
    ELSE IF Q.inf THEN P
    ELSE IF P.x = Q.x /\ Fp2Add(P.y, Q.y) = Fp2Zero THEN G2Inf
    ELSE LET lam == IF P.x = Q.x
                    THEN Fp2Mul(Fp2Mul(<<3, 0>>, Fp2Mul(P.x, P.x)),
                                Fp2Inv(Fp2Mul(<<2, 0>>, P.y)))
                    ELSE Fp2Mul(Fp2Sub(Q.y, P.y), Fp2Inv(Fp2Sub(Q.x, P.x)))
             x3 == Fp2Sub(Fp2Sub(Fp2Mul(lam, lam), P.x), Q.x)
         IN  G2Pt(x3, Fp2Sub(Fp2Mul(lam, Fp2Sub(P.x, x3)), P.y))
RECURSIVE G2Mul(_, _)
\* GroupG2::mul
G2Mul(P, e) ==
    IF e = 0 THEN G2Inf
    ELSE LET half == G2Mul(G2Add(P, P), e \div 2)
         IN  IF e % 2 = 1 THEN G2Add(P, half) ELSE half

(***************************************************************************)
(* Bytes and big numbers.                                                  *)
(***************************************************************************)
U8 == 0 .. 255
RECURSIVE FromBytes(_)
\* BigNum::frombytes / DBig::frombytes: the big-endian value of a byte string
FromBytes(b) ==
    IF Len(b) = 0 THEN 0
    ELSE 256 * FromBytes(SubSeq(b, 1, Len(b) - 1)) + b[Len(b)]
RECURSIVE Pow256(_)
Pow256(n) == IF n = 0 THEN 1 ELSE 256 * Pow256(n - 1)
\* BigNum::tobytes: the MODBYTES big-endian bytes of a reduced field element
ToBytes(v) == [i \in 1 .. MODBYTES |-> (v \div Pow256(MODBYTES - i)) % 256]
Zeros(n) == [i \in 1 .. n |-> 0]

\* Takes a y-value and calculates if a_flag is 1 or 0: floor((y * 2) / p)
calc_a_flag(y) == IF y * 2 < MODULUS THEN 0 ELSE 1

(***************************************************************************)
(* The point codec.                                                        *)
(***************************************************************************)
\* a Result<GroupG1, DecodeError> / Result<GroupG2, DecodeError>
Ok(P) == [status |-> "Ok", point |-> P]
Err1(e) == [status |-> e, point |-> G1Inf]
Err2(e) == [status |-> e, point |-> G2Inf]

\* InfinityBytes with b_flag alone
InfinityBytesNoCFlag(n) == [Zeros(n) EXCEPT ![1] = 64]
\* the encoding of the point at infinity: b_flag and c_flag set, all else 0
InfinityBytes(n) == [Zeros(n) EXCEPT ![1] = 64 + 128]

\* Take a GroupG1 point (x, y) and compress it to MODBYTES bytes
compress_g1(g1) ==
    IF g1.inf
    THEN InfinityBytes(MODBYTES)
    ELSE LET g1_bytes == <<4>> \o ToBytes(g1.x) \o ToBytes(g1.y)
             result == SubSeq(g1_bytes, 2, MODBYTES + 1)
             a_flag == calc_a_flag(FromBytes(SubSeq(g1_bytes, MODBYTES + 2, G1_BYTE_SIZE + 1)))
         IN  [result EXCEPT ![1] = result[1] + 32 * a_flag + 128]

\* DecompressG1Finite negating the point when its a_flag IS the one given
DecompressG1Negated(g1_bytes, pick) ==
    LET a_flag == (g1_bytes[1] % 64) \div 32
        x_big == FromBytes([g1_bytes EXCEPT ![1] = g1_bytes[1] % 32])
        point == G1NewBig(x_big, pick)
    IN  IF point.inf THEN Err1("BadPoint")
        ELSE IF calc_a_flag(point.y) = a_flag THEN Ok(G1Neg(point)) ELSE Ok(point)
\* the finite-point branch of decompress_g1: x from the bytes without the
\* flags, the point of that abscissa, negated when its a_flag is not the one given
DecompressG1Finite(g1_bytes, pick) ==
    LET a_flag == (g1_bytes[1] % 64) \div 32
        x_big == FromBytes([g1_bytes EXCEPT ![1] = g1_bytes[1] % 32])
        point == G1NewBig(x_big, pick)
    IN  IF point.inf THEN Err1("BadPoint")
        ELSE IF calc_a_flag(point.y) # a_flag THEN Ok(G1Neg(point)) ELSE Ok(point)

\* Take MODBYTES bytes and convert to a GroupG1 point (x, y)
decompress_g1(g1_bytes, pick) ==
    IF Len(g1_bytes) # MODBYTES THEN Err1("IncorrectSize")
    ELSE LET a_flag == (g1_bytes[1] % 64) \div 32
         IN  IF g1_bytes[1] \div 128 # 1 THEN Err1("InvalidCFlag")
             ELSE IF (g1_bytes[1] % 128) \div 64 = 1
             THEN IF a_flag # 0 \/ g1_bytes[1] % 32 # 0 THEN Err1("BadPoint")
                  ELSE IF \E i \in 2 .. Len(g1_bytes) : g1_bytes[i] # 0 THEN Err1("BadPoint")
                  ELSE Ok(G1Inf)
             ELSE DecompressG1Finite(g1_bytes, pick)

\* Take a GroupG2 point (x, y) and compress it to 2 * MODBYTES bytes
compress_g2(g2) ==
    IF g2.inf
    THEN InfinityBytes(G2_BYTE_SIZE \div 2)
    ELSE LET g2_bytes == ToBytes(g2.x[1]) \o ToBytes(g2.x[2])
                         \o ToBytes(g2.y[1]) \o ToBytes(g2.y[2])
             x_real == SubSeq(g2_bytes, 1, MODBYTES)
             x_imaginary == SubSeq(g2_bytes, MODBYTES + 1, MODBYTES * 2)
             result == x_imaginary \o x_real
             a_flag == calc_a_flag(FromBytes(SubSeq(g2_bytes, MODBYTES * 3 + 1, G2_BYTE_SIZE)))
         IN  [result EXCEPT ![1] = result[1] + 32 * a_flag + 128]

\* DecompressG2Infinity without the check of a_flag
DecompressG2InfinityLoose(g2_bytes) ==
    IF g2_bytes[1] % 32 # 0 THEN Err2("BadPoint")
    ELSE IF \E i \in 2 .. Len(g2_bytes) : g2_bytes[i] # 0 THEN Err2("BadPoint")
    ELSE Ok(G2Inf)
\* the infinity branch of decompress_g2: a_flag and every other bit must be 0
DecompressG2Infinity(g2_bytes) ==
    IF g2_bytes[1] % 64 # 0 THEN Err2("BadPoint")
    ELSE IF \E i \in 2 .. Len(g2_bytes) : g2_bytes[i] # 0 THEN Err2("BadPoint")
    ELSE Ok(G2Inf)

\* Take 2 * MODBYTES bytes and convert to a GroupG2 point (x, y)
decompress_g2(g2_bytes, pick) ==
    IF Len(g2_bytes) # G2_BYTE_SIZE \div 2 THEN Err2("IncorrectSize")
    ELSE IF g2_bytes[1] \div 128 # 1 THEN Err2("InvalidCFlag")
    ELSE IF (g2_bytes[1] % 128) \div 64 = 1 THEN DecompressG2Infinity(g2_bytes)
    ELSE LET a_flag == (g2_bytes[1] % 64) \div 32
             cleared == [g2_bytes EXCEPT ![1] = g2_bytes[1] % 32]
             x_imaginary == FromBytes(SubSeq(cleared, 1, MODBYTES))
             x_real == FromBytes(SubSeq(cleared, MODBYTES + 1, Len(cleared)))
             x == Fp2NewBigs(x_real, x_imaginary)
             point == G2NewFp2(x, pick)
         IN  IF point.inf THEN Err2("BadPoint")
             ELSE IF calc_a_flag(point.y[2]) # a_flag THEN Ok(G2Neg(point)) ELSE Ok(point)

(***************************************************************************)
(* Hashing to the field.  A digest (the output of hash) is supplied by     *)
(* the environment; d is the sequence of the HASH_REPS digests of one      *)
(* field element.                                                          *)
(***************************************************************************)
RECURSIVE Concat(_)
Concat(d) == IF Len(d) = 0 THEN <<>> ELSE Concat(SubSeq(d, 1, Len(d) - 1)) \o d[Len(d)]

\* Convert a message to a Fp point: the digests, then zeros pushed up to
\* 2 * MODBYTES bytes, read as a DBig and reduced modulo p
hash_to_field_g1(d) ==
    LET t == Concat(d) \o Zeros(MODBYTES * 2 - Len(Concat(d)))
    IN  FromBytes(t) % MODULUS

\* Convert a message to a Fp2 point: per component, zeros and then the
\* digests, read as a DBig and reduced modulo p
hash_to_field_g2(d1, d2) ==
    LET e == [i \in 1 .. 2 |->
                LET t == Concat(IF i = 1 THEN d1 ELSE d2)
                    buf == Zeros(MODBYTES * 2 - Len(t)) \o t
                IN  FromBytes(buf) % MODULUS]
    IN  Fp2NewBigs(e[1], e[2])

(***************************************************************************)
(* Cofactor clearing.                                                      *)
(***************************************************************************)
\* multiply_g2_cofactor with the three parts as independent contributions
MultiplyG2CofactorSum(point) ==
    G2Add(G2Add(G2Mul(point, G2_COFACTOR_HIGH), G2Mul(point, G2_COFACTOR_SHIFT)),
          G2Mul(point, G2_COFACTOR_LOW))
\* Multiply in parts by cofactor due to its size
multiply_g2_cofactor(point) ==
    LET lowpart0 == point
        point1 == G2Mul(point, G2_COFACTOR_HIGH)
        point2 == G2Mul(point1, G2_COFACTOR_SHIFT)
        lowpart == G2Mul(lowpart0, G2_COFACTOR_LOW)
    IN  G2Add(point2, lowpart)

\* clear_g2_cofactor is clear_g2_psi of psi_cofactor.rs, which agrees with
\* multiply_g2_cofactor
clear_g2_cofactor(point) == multiply_g2_cofactor(point)

(***************************************************************************)
(* State.                                                                  *)
(***************************************************************************)
VARIABLES
    hist,               \* the operations applied so far, in order
    held,               \* what the caller holds: "point", "bytes", "error", "field", "none"
    g1,                 \* the GroupG1 value held (curve_point in hash_and_test_g1)
    g2,                 \* the GroupG2 value held (curve_point in hash_and_test_g2)
    buf,                \* the byte buffer held
    status,             \* the status of the last decode
    g1_0, g2_0, buf_0,  \* the values the run started from
    digests,            \* the digests the environment supplied to hash_to_field
    fe, fe2,            \* the FP / FP2 a hash_to_field call returned
    pc,                 \* the position inside hash_and_test_g1 / hash_and_test_g2
    build,              \* "debug" (overflow checks on) or "release" (wrapping)
    counter, real_counter, imaginary_counter,
    cycled              \* the counters are back at values already tried

vars == <<hist, held, g1, g2, buf, status, g1_0, g2_0, buf_0, digests, fe, fe2,
          pc, build, counter, real_counter, imaginary_counter, cycled>>

codecVars == <<g1, g2, buf, status, g1_0, g2_0, buf_0, held>>
fieldVars == <<digests, fe, fe2>>
loopVars == <<pc, build, counter, real_counter, imaginary_counter, cycled>>

(***************************************************************************)
(* The inputs drawn.                                                       *)
(***************************************************************************)
\* a most significant byte: the three flag bits and the top bits of x
FirstBytes == {f * 32 + lo : f \in 0 .. 7, lo \in 0 .. MaxHi}
\* the values drawn for the byte at place i of a buffer
ByteAt(i) ==
    IF i = 1 THEN FirstBytes
    ELSE IF i % MODBYTES = 1 THEN 0 .. MaxHi ELSE 0 .. MaxLo
RECURSIVE RightLenBufs(_)
\* the buffers of the expected length n (a multiple of MODBYTES)
RightLenBufs(n) ==
    IF n = 0 THEN {<<>>}
    ELSE {Append(b, x) : b \in RightLenBufs(n - 1), x \in ByteAt(n)}
\* buffers of every other length up to n + MaxExtraLen, the empty one included
WrongLenBufs(n) ==
    UNION {[1 .. k -> {0, 192}] : k \in (0 .. (n + MaxExtraLen)) \ {n}}
G1Inputs == RightLenBufs(MODBYTES) \cup WrongLenBufs(MODBYTES)
G2Inputs == RightLenBufs(G2_BYTE_SIZE \div 2) \cup WrongLenBufs(G2_BYTE_SIZE \div 2)
\* the digests the environment may supply
Digests == [1 .. DIGESTBYTES -> 0 .. MaxDigestByte]

(***************************************************************************)
(* Initial states.                                                         *)
(***************************************************************************)
InitRest ==
    /\ hist = <<>>
    /\ status = "None"
    /\ digests = <<>> /\ fe = 0 /\ fe2 = Fp2Zero
    /\ pc = "idle" /\ build = "release"
    /\ counter = 0 /\ real_counter = 0 /\ imaginary_counter = 0
    /\ cycled = FALSE

\* the caller holds a GroupG1 point
InitG1Point ==
    /\ g1 \in G1Points /\ g1_0 = g1
    /\ g2 = G2Inf /\ g2_0 = G2Inf /\ buf = <<>> /\ buf_0 = <<>>
    /\ held = "point1"
    /\ InitRest
\* the caller holds a GroupG2 point
InitG2Point ==
    /\ g2 \in G2Points /\ g2_0 = g2
    /\ g1 = G1Inf /\ g1_0 = G1Inf /\ buf = <<>> /\ buf_0 = <<>>
    /\ held = "point2"
    /\ InitRest
\* the caller holds bytes meant for decompress_g1
InitG1Bytes ==
    /\ buf \in G1Inputs /\ buf_0 = buf
    /\ g1 = G1Inf /\ g1_0 = G1Inf /\ g2 = G2Inf /\ g2_0 = G2Inf
    /\ held = "bytes1"
    /\ InitRest
\* the caller holds bytes meant for decompress_g2
InitG2Bytes ==
    /\ buf \in G2Inputs /\ buf_0 = buf
    /\ g1 = G1Inf /\ g1_0 = G1Inf /\ g2 = G2Inf /\ g2_0 = G2Inf
    /\ held = "bytes2"
    /\ InitRest
\* the caller holds nothing yet
InitNone ==
    /\ g1 = G1Inf /\ g1_0 = G1Inf /\ g2 = G2Inf /\ g2_0 = G2Inf
    /\ buf = <<>> /\ buf_0 = <<>>
    /\ held = "none"
    /\ hist = <<>>
    /\ status = "None"
    /\ digests = <<>> /\ fe = 0 /\ fe2 = Fp2Zero
    /\ pc = "idle" /\ build \in {"debug", "release"}
    /\ counter = 0 /\ real_counter = 0 /\ imaginary_counter = 0
    /\ cycled = FALSE

(***************************************************************************)
(* The codec's operations.                                                 *)
(***************************************************************************)
CompressG1 ==
    /\ held = "point1" /\ pc = "idle" /\ Len(hist) < MaxOps
    /\ buf' = compress_g1(g1)
    /\ held' = "bytes1"
    /\ hist' = Append(hist, "compress_g1")
    /\ UNCHANGED <<g1, g2, status, g1_0, g2_0, buf_0, fieldVars, loopVars>>

DecompressG1 ==
    /\ held = "bytes1" /\ pc = "idle" /\ Len(hist) < MaxOps
    /\ \E pick \in {0, 1} :
         LET r == decompress_g1(buf, pick)
         IN  /\ status' = r.status
             /\ g1' = r.point
             /\ held' = IF r.status = "Ok" THEN "point1" ELSE "error"
    /\ hist' = Append(hist, "decompress_g1")
    /\ UNCHANGED <<g2, buf, g1_0, g2_0, buf_0, fieldVars, loopVars>>

CompressG2 ==
    /\ held = "point2" /\ pc = "idle" /\ Len(hist) < MaxOps
    /\ buf' = compress_g2(g2)
    /\ held' = "bytes2"
    /\ hist' = Append(hist, "compress_g2")
    /\ UNCHANGED <<g1, g2, status, g1_0, g2_0, buf_0, fieldVars, loopVars>>

DecompressG2 ==
    /\ held = "bytes2" /\ pc = "idle" /\ Len(hist) < MaxOps
    /\ \E pick \in {0, 1} :
         LET r == decompress_g2(buf, pick)
         IN  /\ status' = r.status
             /\ g2' = r.point
             /\ held' = IF r.status = "Ok" THEN "point2" ELSE "error"
    /\ hist' = Append(hist, "decompress_g2")
    /\ UNCHANGED <<g1, buf, g1_0, g2_0, buf_0, fieldVars, loopVars>>

InitCodec == InitG1Point \/ InitG2Point \/ InitG1Bytes \/ InitG2Bytes
NextCodec == CompressG1 \/ DecompressG1 \/ CompressG2 \/ DecompressG2
SpecCodec == InitCodec /\ [][NextCodec]_vars

(***************************************************************************)
(* The codec's properties.                                                 *)
(***************************************************************************)
Bit(byte, k) == (byte \div (2 ^ k)) % 2
InSubgroupG1(P) == G1Mul(P, CURVE_ORDER) = G1Inf
InSubgroupG2(P) == G2Mul(P, CURVE_ORDER) = G2Inf

\* C1: a G2 point compressed and decompressed is the point itself, and the
\* a_flag compress_g2 writes is calc_a_flag of the imaginary part of y.
C1_G2RoundTrip ==
    /\ (hist = <<"compress_g2">> /\ ~g2_0.inf)
         => Bit(buf[1], 5) = calc_a_flag(g2_0.y[2])
    /\ hist = <<"compress_g2", "decompress_g2">>
         => (status = "Ok" /\ g2 = g2_0)

\* C2: a G1 point compressed and decompressed is the point itself: same x and
\* the same root y.
C2_G1RoundTrip ==
    hist = <<"compress_g1", "decompress_g1">> => (status = "Ok" /\ g1 = g1_0)
C2_Witness ==
    /\ hist = <<"compress_g1", "decompress_g1">>
    /\ ~g1_0.inf /\ calc_a_flag(g1_0.y) = 1
    /\ status = "Ok"

\* C3: a point decompress_g1 / decompress_g2 returns as Ok is in the subgroup
\* of prime order CURVE_ORDER.
C3_DecodedInSubgroup ==
    /\ (hist = <<"decompress_g1">> /\ status = "Ok") => InSubgroupG1(g1)
    /\ (hist = <<"decompress_g2">> /\ status = "Ok") => InSubgroupG2(g2)

\* the x the bytes of a G1 buffer hold under the three flag bits
DecodedX1(b) == FromBytes(b) % (2 ^ (8 * MODBYTES - 3))
\* the x the bytes of a G2 buffer hold: imaginary part first, then real part
DecodedX2(b) ==
    <<FromBytes(SubSeq(b, MODBYTES + 1, 2 * MODBYTES)) % MODULUS,
      (FromBytes(SubSeq(b, 1, MODBYTES)) % (2 ^ (8 * MODBYTES - 3))) % MODULUS>>
\* the status the error taxonomy gives a buffer b for a group whose buffers
\* are n bytes long, noPoint saying that the decoded x has no point on the curve
Taxonomy(b, n, noPoint) ==
    IF Len(b) # n THEN "IncorrectSize"
    ELSE IF Bit(b[1], 7) = 0 THEN "InvalidCFlag"
    ELSE IF Bit(b[1], 6) = 1
    THEN IF Bit(b[1], 5) = 1 \/ b[1] % 32 # 0 \/ (\E i \in 2 .. n : b[i] # 0)
         THEN "BadPoint" ELSE "Ok"
    ELSE IF noPoint THEN "BadPoint" ELSE "Ok"

\* C4: decoding any byte string returns exactly the status of the taxonomy:
\* IncorrectSize, else InvalidCFlag, else BadPoint, else Ok with the point at
\* infinity (b_flag) or a point of the curve whose x is the decoded x.
C4_DecodeTaxonomy ==
    /\ hist = <<"decompress_g1">> =>
         /\ status = Taxonomy(buf_0, MODBYTES,
                              Len(buf_0) = MODBYTES
                              /\ ~\E y \in Fp : (y * y) % MODULUS
                                   = (DecodedX1(buf_0) ^ 3 + CURVE_B) % MODULUS)
         /\ status = "Ok" =>
              IF Bit(buf_0[1], 6) = 1 THEN g1.inf
              ELSE ~g1.inf /\ G1OnCurve(g1) /\ g1.x = DecodedX1(buf_0) % MODULUS
    /\ hist = <<"decompress_g2">> =>
         /\ status = Taxonomy(buf_0, 2 * MODBYTES,
                              Len(buf_0) = 2 * MODBYTES
                              /\ ~\E y \in Fp2 : Fp2Mul(y, y)
                                   = G2Rhs(DecodedX2(buf_0)))
         /\ status = "Ok" =>
              IF Bit(buf_0[1], 6) = 1 THEN g2.inf
              ELSE ~g2.inf /\ G2OnCurve(g2) /\ g2.x = DecodedX2(buf_0)
C4_Witness ==
    /\ hist = <<"decompress_g2">>
    /\ status = "BadPoint"
    /\ Bit(buf_0[1], 6) = 0

\* C5: a buffer decompress_g1 / decompress_g2 accepts is compressed back to
\* the same bytes.
C5_BitExactReencoding ==
    /\ (hist = <<"decompress_g1", "compress_g1">> /\ status = "Ok") => buf = buf_0
    /\ (hist = <<"decompress_g2", "compress_g2">> /\ status = "Ok") => buf = buf_0

\* C6: the point at infinity is compressed to MODBYTES (G1) or 2 * MODBYTES
\* (G2) bytes, the first 0xC0 and the others 0, and that buffer is
\* decompressed to the point at infinity.
C6_InfinityEncoding ==
    /\ (hist = <<"compress_g1">> /\ g1_0.inf)
         => (Len(buf) = MODBYTES /\ buf[1] = 192 /\ \A i \in 2 .. Len(buf) : buf[i] = 0)
    /\ (hist = <<"compress_g2">> /\ g2_0.inf)
         => (Len(buf) = 2 * MODBYTES /\ buf[1] = 192 /\ \A i \in 2 .. Len(buf) : buf[i] = 0)
    /\ (hist = <<"compress_g1", "decompress_g1">> /\ g1_0.inf)
         => (status = "Ok" /\ g1.inf)
    /\ (hist = <<"compress_g2", "decompress_g2">> /\ g2_0.inf)
         => (status = "Ok" /\ g2.inf)
C6_Witness ==
    /\ hist = <<"compress_g2", "decompress_g2">>
    /\ g2_0.inf /\ buf = <<192>> \o Zeros(2 * MODBYTES - 1)
    /\ status = "Ok" /\ g2.inf

(***************************************************************************)
(* hash_to_field_g1 / hash_to_field_g2 and multiply_g2_cofactor as         *)
(* operations.                                                             *)
(***************************************************************************)
\* the HASH_REPS digests of one field element
DigestRuns == [1 .. HASH_REPS -> Digests]

HashToFieldG1 ==
    /\ held = "none" /\ pc = "idle"
    /\ \E d \in DigestRuns :
         /\ digests' = <<d>>
         /\ fe' = hash_to_field_g1(d)
    /\ held' = "field"
    /\ hist' = Append(hist, "hash_to_field_g1")
    /\ UNCHANGED <<g1, g2, buf, status, g1_0, g2_0, buf_0, fe2, loopVars>>

HashToFieldG2 ==
    /\ held = "none" /\ pc = "idle"
    /\ \E d1 \in DigestRuns, d2 \in DigestRuns :
         /\ digests' = <<d1, d2>>
         /\ fe2' = hash_to_field_g2(d1, d2)
    /\ held' = "field"
    /\ hist' = Append(hist, "hash_to_field_g2")
    /\ UNCHANGED <<g1, g2, buf, status, g1_0, g2_0, buf_0, fe, loopVars>>

InitHashField == InitNone
NextHashField == HashToFieldG1 \/ HashToFieldG2
SpecHashField == InitHashField /\ [][NextHashField]_vars

MultiplyG2Cofactor ==
    /\ held = "point2" /\ hist = <<>>
    /\ g2' = multiply_g2_cofactor(g2)
    /\ hist' = Append(hist, "multiply_g2_cofactor")
    /\ UNCHANGED <<g1, buf, status, g1_0, g2_0, buf_0, held, fieldVars, loopVars>>

ClearG2Cofactor ==
    /\ held = "point2" /\ hist = <<>>
    /\ g2' = clear_g2_cofactor(g2)
    /\ hist' = Append(hist, "clear_g2_cofactor")
    /\ UNCHANGED <<g1, buf, status, g1_0, g2_0, buf_0, held, fieldVars, loopVars>>

InitCofactor == InitG2Point
NextCofactor == MultiplyG2Cofactor \/ ClearG2Cofactor
SpecCofactor == InitCofactor /\ [][NextCofactor]_vars

\* the value the digests of one field element stand for: the concatenation,
\* zero-left-padded to 2 * MODBYTES bytes, big-endian, modulo p
LeftPaddedValue(d) ==
    FromBytes(Zeros(2 * MODBYTES - HASH_REPS * DIGESTBYTES) \o Concat(d)) % MODULUS

\* C9: hash_to_field_g1 and both components of hash_to_field_g2 are the
\* zero-left-padded digests read big-endian, modulo p.
C9_HashToFieldValue ==
    /\ hist = <<"hash_to_field_g1">> => fe = LeftPaddedValue(digests[1])
    /\ hist = <<"hash_to_field_g2">>
         => fe2 = <<LeftPaddedValue(digests[1]), LeftPaddedValue(digests[2])>>

\* C10: multiply_g2_cofactor(P) is P times HIGH * SHIFT + LOW.
C10_CompoundCofactor ==
    hist = <<"multiply_g2_cofactor">>
        => g2 = G2Mul(g2_0, G2_COFACTOR_HIGH * G2_COFACTOR_SHIFT + G2_COFACTOR_LOW)
C10_Witness ==
    /\ hist = <<"multiply_g2_cofactor">>
    /\ ~g2_0.inf /\ ~g2.inf
    /\ G2Mul(g2_0, G2_COFACTOR_HIGH) # g2

(***************************************************************************)
(* hash_and_test_g1 / hash_and_test_g2, one action per iteration of the    *)
(* loop.  The digest of (msg, domain, counter) is supplied by the          *)
(* environment; it is a function of the counter, so once the counters are  *)
(* back at values already tried (cycled) the candidates fail again.        *)
(***************************************************************************)
\* y.is_neg(): y is negative if y > -y
FpIsNeg(y) == y > FpNeg(y)
Fp2IsNeg(y) == y # Fp2Neg(y) /\ Fp2Leq(Fp2Neg(y), y)

StartG1 ==
    /\ held = "none" /\ pc = "idle"
    /\ pc' = "g1_loop"
    /\ counter' = 0
    /\ hist' = Append(hist, "hash_and_test_g1")
    /\ UNCHANGED <<codecVars, fieldVars, build, real_counter, imaginary_counter, cycled>>

\* one pass of the loop of hash_and_test_g1
IterateG1 ==
    /\ pc = "g1_loop"
    /\ \E h \in Digests, pick \in {0, 1} :
         LET x == FromBytes(Zeros(HASHPAD) \o h) % MODULUS
             curve_point == G1NewBig(x, pick)
         IN  /\ cycled => curve_point.inf
             /\ g1' = curve_point
             /\ IF ~curve_point.inf
                THEN pc' = "g1_found" /\ UNCHANGED <<counter, cycled>>
                ELSE IF counter < 255
                THEN counter' = counter + 1 /\ UNCHANGED <<pc, cycled>>
                ELSE IF build = "debug"
                THEN pc' = "panic" /\ UNCHANGED <<counter, cycled>>
                ELSE counter' = 0 /\ cycled' = TRUE /\ UNCHANGED pc
    /\ UNCHANGED <<hist, held, g2, buf, status, g1_0, g2_0, buf_0, fieldVars,
                   build, real_counter, imaginary_counter>>

\* after the loop: the sign of y, then the cofactor
FinishG1 ==
    /\ pc = "g1_found"
    /\ g1' = G1Cfp(IF FpIsNeg(g1.y) THEN G1Neg(g1) ELSE g1)
    /\ pc' = "done"
    /\ held' = "point1"
    /\ UNCHANGED <<hist, g2, buf, status, g1_0, g2_0, buf_0, fieldVars,
                   build, counter, real_counter, imaginary_counter, cycled>>

StartG2 ==
    /\ held = "none" /\ pc = "idle"
    /\ pc' = "g2_loop"
    /\ real_counter' = 1
    /\ imaginary_counter' = 2
    /\ hist' = Append(hist, "hash_and_test_g2")
    /\ UNCHANGED <<codecVars, fieldVars, build, counter, cycled>>

\* one pass of the loop of hash_and_test_g2
IterateG2 ==
    /\ pc = "g2_loop"
    /\ \E hr \in Digests, hi \in Digests, pick \in {0, 1} :
         LET x_real == FromBytes(Zeros(HASHPAD) \o hr)
             x_imaginary == FromBytes(Zeros(HASHPAD) \o hi)
             x == Fp2NewBigs(x_real, x_imaginary)
             curve_point == G2NewFp2(x, pick)
         IN  /\ cycled => curve_point.inf
             /\ g2' = curve_point
             /\ IF ~curve_point.inf
                THEN pc' = "g2_found"
                     /\ UNCHANGED <<real_counter, imaginary_counter, cycled>>
                ELSE IF build = "debug" /\ real_counter = 255
                THEN pc' = "panic"
                     /\ UNCHANGED <<real_counter, imaginary_counter, cycled>>
                ELSE IF build = "debug" /\ imaginary_counter = 255
                THEN pc' = "panic" /\ real_counter' = real_counter + 1
                     /\ UNCHANGED <<imaginary_counter, cycled>>
                ELSE /\ real_counter' = (real_counter + 1) % 256
                     /\ imaginary_counter' = (imaginary_counter + 1) % 256
                     /\ cycled' = (cycled \/ real_counter' = 1)
                     /\ UNCHANGED pc
    /\ UNCHANGED <<hist, held, g1, buf, status, g1_0, g2_0, buf_0, fieldVars,
                   build, counter>>

FinishG2 ==
    /\ pc = "g2_found"
    /\ g2' = clear_g2_cofactor(IF Fp2IsNeg(g2.y) THEN G2Neg(g2) ELSE g2)
    /\ pc' = "done"
    /\ held' = "point2"
    /\ UNCHANGED <<hist, g1, buf, status, g1_0, g2_0, buf_0, fieldVars,
                   build, counter, real_counter, imaginary_counter, cycled>>

InitHashTest == InitNone
NextHashTest == StartG1 \/ IterateG1 \/ FinishG1 \/ StartG2 \/ IterateG2 \/ FinishG2
SpecHashTest == InitHashTest /\ [][NextHashTest]_vars

\* C7: no pass of either loop increments a counter that holds 255: no
\* overflow panic, and no counter wraps around.
C7_NoCounterOverflow ==
    [][/\ pc' # "panic"
       /\ counter' >= counter
       /\ real_counter' >= real_counter
       /\ imaginary_counter' >= imaginary_counter]_vars

\* C8: the point hash_and_test_g1 / hash_and_test_g2 returns is not the
\* point at infinity.
C8_NeverInfinity ==
    /\ (pc = "done" /\ hist = <<"hash_and_test_g1">>) => ~g1.inf
    /\ (pc = "done" /\ hist = <<"hash_and_test_g2">>) => ~g2.inf

(***************************************************************************)
(* Everything together.                                                    *)
(***************************************************************************)
Init == InitCodec \/ InitNone
Next == NextCodec \/ NextHashField \/ NextCofactor \/ NextHashTest
Spec == Init /\ [][Next]_vars

====
